---- MODULE Spec2Model ----
(***************************************************************************)
(* State-machine model of the geospatial data layer of VarGlaS             *)
(* (src/src/utilities.py): DataInput (loading, NaN masks, trimming,        *)
(* editing operations, interpolants, projection onto a mesh, field         *)
(* assimilation).                                                          *)
(*                                                                         *)
(* Numbers are integers counted in thousandths, so that the literal        *)
(* -0.002 of the edge-zeroing and the literal 1 of the boolean             *)
(* thresholding keep their order relative to the data.  NumPy arrays are   *)
(* sequences of rows; an array object that several names refer to (an      *)
(* entry of an in-memory mapping handed to several DataInput objects) is   *)
(* one buffer of the variable `files`, and a DataInput field is either a   *)
(* view of such a buffer or an array of its own.                           *)
(***************************************************************************)
EXTENDS Integers, Sequences, FiniteSets, TLC

\* ------------------------------------------------------------------ bounds
NX == 4
NY == 4
MaxCalls == 2

\* the number of MeshGenerator method calls explored
MaxMeshCalls == 3

\* ------------------------------------------------------- program constants
\* the floating-point not-a-number, a value outside the data range
NaN == -999999
\* -0.002, the value written to the two outermost rows and columns
EdgeVal == -2
\* 1, the value every positive sample is replaced by
One == 1000

Groups == {"A", "B"}
Keys == {"h", "b"}

\* ------------------------------------------------------------ numpy helpers
\* comparisons with a NaN operand are false
Gt(v, b) == v # NaN /\ b # NaN /\ v > b
Le(v, b) == v # NaN /\ b # NaN /\ v <= b
Ge(v, b) == v # NaN /\ b # NaN /\ v >= b
EqV(v, b) == v # NaN /\ b # NaN /\ v = b
isnan(v) == v = NaN

shape(a) == <<Len(a), IF Len(a) = 0 THEN 0 ELSE Len(a[1])>>

\* a[mask] = val, with mask a boolean array of the shape of a
MaskedAssign(a, mask, val) ==
  [i \in 1..Len(a) |-> [j \in 1..Len(a[i]) |-> IF mask[i][j] THEN val ELSE a[i][j]]]

\* the boolean arrays a > b, a <= b, a >= b, a == b
GtMask(a, b) == [i \in 1..Len(a) |-> [j \in 1..Len(a[i]) |-> Gt(a[i][j], b)]]
LeMask(a, b) == [i \in 1..Len(a) |-> [j \in 1..Len(a[i]) |-> Le(a[i][j], b)]]
GeMask(a, b) == [i \in 1..Len(a) |-> [j \in 1..Len(a[i]) |-> Ge(a[i][j], b)]]
EqMask(a, b) == [i \in 1..Len(a) |-> [j \in 1..Len(a[i]) |-> EqV(a[i][j], b)]]

\* a[::-1, :]
FlipRows(a) == [i \in 1..Len(a) |-> a[Len(a) + 1 - i]]

\* indices of the true entries of a boolean mask, in order
RECURSIVE TrueIdx(_, _)
TrueIdx(mask, k) ==
  IF k > Len(mask) THEN << >>
  ELSE IF mask[k] THEN <<k>> \o TrueIdx(mask, k + 1)
  ELSE TrueIdx(mask, k + 1)

\* s[mask], boolean indexing of a one-dimensional array
BoolIndex(s, mask) ==
  LET idx == TrueIdx(mask, 1)
  IN [k \in 1..Len(idx) |-> s[idx[k]]]

\* a[good_y, :][:, good_x]
BoolIndex2(a, gy, gx) ==
  LET rows == BoolIndex(a, gy)
  IN [i \in 1..Len(rows) |-> BoolIndex(rows[i], gx)]

\* linspace(lo, hi, n) on extents the sample count divides
linspace(lo, hi, n) ==
  [i \in 1..n |-> IF n = 1 THEN lo ELSE lo + ((i - 1) * (hi - lo)) \div (n - 1)]

\* x_min = x.max(): the extent taken from the wrong end
SeqMinWrongEnd(s) == CHOOSE v \in {s[i] : i \in 1..Len(s)} : \A i \in 1..Len(s) : v >= s[i]

SeqMin(s) == CHOOSE v \in {s[i] : i \in 1..Len(s)} : \A i \in 1..Len(s) : v <= s[i]
SeqMax(s) == CHOOSE v \in {s[i] : i \in 1..Len(s)} : \A i \in 1..Len(s) : v >= s[i]

Abs(v) == IF v < 0 THEN -v ELSE v

\* the search started at the second sample
argmin_abs_from_second(xs, x) ==
  CHOOSE i \in (IF Len(xs) > 1 THEN 2 ELSE 1)..Len(xs) :
    \A k \in (IF Len(xs) > 1 THEN 2 ELSE 1)..Len(xs) : Abs(xs[i] - x) <= Abs(xs[k] - x)

\* abs(xs - x).argmin(): the first index of the least distance
argmin_abs(xs, x) ==
  CHOOSE i \in 1..Len(xs) :
    /\ \A k \in 1..Len(xs) : Abs(xs[i] - x) <= Abs(xs[k] - x)
    /\ \A k \in 1..(i - 1) : Abs(xs[k] - x) > Abs(xs[i] - x)

\* ~all(isnan(data), axis=0): per column, and axis=1: per row
NotAllNanCols(d) == [j \in 1..shape(d)[2] |-> \E i \in 1..Len(d) : ~isnan(d[i][j])]
NotAllNanRows(d) == [i \in 1..Len(d) |-> \E j \in 1..Len(d[i]) : ~isnan(d[i][j])]

AndMask(m, n) == [k \in 1..Len(m) |-> m[k] /\ n[k]]

\* -------------------------------------------------------------- raster input
\* The raster files: NY x NX grids on one extent, NaN on chosen rows and
\* columns and on chosen single cells, over a base pattern.
Base(pat, i, j) ==
  CASE pat = "ramp" -> 1000 * (j - 2)
    [] pat = "flat" -> 2000
    [] OTHER -> 1000 * (i + j - 3)

Raster(s) ==
  [i \in 1..NY |-> [j \in 1..NX |->
     IF i \in s.nanRows \/ j \in s.nanCols \/ <<i, j>> \in s.holes
     THEN NaN ELSE Base(s.pat, i, j)]]

RSpec(pat, nr, nc, holes) == [pat |-> pat, nanRows |-> nr, nanCols |-> nc, holes |-> holes]

RastersLoad ==
  { Raster(s) : s \in
     { RSpec("ramp", {}, {}, {}),
       RSpec("ramp", {}, {2}, {}),
       RSpec("diag", {1}, {}, {}),
       RSpec("flat", {NY}, {1}, {}),
       RSpec("diag", {}, {}, {<<1, 1>>, <<2, 3>>}),
       RSpec("flat", {}, {NX - 1, NX}, {<<1, 1>>}),
       RSpec("flat", 1..NY, {}, {}) } }

RastersOps ==
  { Raster(s) : s \in
     { RSpec("ramp", {}, {}, {}),
       RSpec("diag", {1}, {}, {<<2, 2>>}) } }

\* metadata of the in-memory mapping and of the directory of files
MetaOf(direc) ==
  [ map_western_edge  |-> 0,
    map_eastern_edge  |-> 2 * (NX - 1),
    map_southern_edge |-> 0,
    map_northern_edge |-> 2 * (NY - 1),
    projection        |-> "stere",
    lon_0             |-> IF direc = "dict" THEN 0 ELSE 2 ]

VARIABLES
  files,      \* the in-memory mapping: key -> array buffer (shared, mutable)
  disk,       \* the directory of .mat files: key -> array (read only)
  pc,         \* per group: "none", "loading", "done", "failed"
  args,       \* per group: the arguments of the running or finished constructor
  di,         \* per group: the attributes of the DataInput object
  interps,    \* the interpolants built so far
  last,       \* the most recent call of the driver and what it returned
  calls,      \* number of calls the driver made on the constructed objects
  mg,         \* the attributes of the MeshGenerator object and its .geo file
  mat         \* the file DataOutput.write_matlab wrote last

vars == <<calls, files, disk, pc, args, di, interps, last, mg, mat>>

\* ------------------------------------------------------------ DataInput state
NoProj == [proj |-> "none", lon_0 |-> 0]

NoDI ==
  [ data |-> << >>, rem_nans |-> FALSE, chg_proj |-> FALSE, new_p |-> NoProj,
    ny |-> 0, nx |-> 0, x_min |-> 0, x_max |-> 0, y_min |-> 0, y_max |-> 0,
    x |-> << >>, y |-> << >>, good_x |-> << >>, good_y |-> << >>, p |-> NoProj ]

NoArgs ==
  [ direc |-> "dict", files |-> << >>, flip |-> FALSE, zero_edge |-> FALSE,
    bool_data |-> FALSE, k |-> 0 ]

NoCall == [op |-> "none", g |-> "A", args |-> << >>, ret |-> << >>, raised |-> FALSE]

\* no MeshGenerator constructed: no attribute set, nothing in the file
NoMG ==
  [ made |-> FALSE, f |-> << >>, closed |-> FALSE, fieldList |-> << >>,
    has_cont |-> FALSE, longest_cont |-> << >>,
    has_geo |-> FALSE, surf_num |-> 0, pts |-> 0, loop |-> << >> ]

\* no file written yet
NoMat ==
  [ written |-> FALSE, map_name |-> "", map_data |-> << >>,
    map_eastern_edge |-> 0, map_western_edge |-> 0,
    map_northern_edge |-> 0, map_southern_edge |-> 0,
    projection |-> "none", lon_0 |-> 0 ]

\* fn.split('.')[0]
Key(fn) ==
  CASE fn = "h.mat" -> "h"
    [] fn = "b.mat" -> "b"
    [] OTHER -> fn

\* the array a field name of a group stands for: an own array, or a view
\* (possibly row-reversed) of a buffer of the in-memory mapping
ViewOf(e, mem) ==
  IF e.ref = "own" THEN e.arr
  ELSE IF e.flip THEN FlipRows(mem[e.key]) ELSE mem[e.key]

Deref(g, k) == ViewOf(di[g].data[k], files)

\* the in-memory mapping after writing array v through entry e
WriteThrough(e, v, mem) ==
  IF e.ref = "own" THEN mem
  ELSE [mem EXCEPT ![e.key] = IF e.flip THEN FlipRows(v) ELSE v]

\* the entry after writing array v through it
Written(e, v) == IF e.ref = "own" THEN [e EXCEPT !.arr = v] ELSE e

\* d[:,0] = d[:,-1] = d[0,:] = d[-1,:] = -0.002 and the same one cell inwards
ZeroEdge(d) ==
  LET ny == Len(d)
      nx == shape(d)[2]
  IN [i \in 1..ny |-> [j \in 1..nx |->
        IF i \in {1, 2, ny - 1, ny} \/ j \in {1, 2, nx - 1, nx}
        THEN EdgeVal ELSE d[i][j]]]

\* d[d > 0] = 1
ToBool(d) == MaskedAssign(d, GtMask(d, 0), One)

\* self.rem_nans = any(good != self.good): the flag assigned, not only set
DirtyAssigned(rem, changed) == changed

\* the dirty flag after a mask changed or did not: rem_nans is set, never cleared
DirtyAfter(rem, changed) == rem \/ changed

\* the masks of the field alone, not intersected with the running masks
identify_nans_overwrite(s, d) ==
  LET gx == NotAllNanCols(d)
      gy == NotAllNanRows(d)
  IN [s EXCEPT !.good_x = gx, !.good_y = gy,
               !.rem_nans = s.rem_nans \/ gx # s.good_x \/ gy # s.good_y]

\* identify_nans(data, fn): the object's attributes after the call
identify_nans(s, d) ==
  LET gx == AndMask(NotAllNanCols(d), s.good_x)
      gy == AndMask(NotAllNanRows(d), s.good_y)
      r1 == DirtyAfter(s.rem_nans, gx # s.good_x)
      r2 == DirtyAfter(r1, gy # s.good_y)
  IN [s EXCEPT !.good_x = gx, !.good_y = gy, !.rem_nans = r2]

\* x.min() of an empty array raises
remove_nans_raises(s) ==
  \/ \A k \in 1..Len(s.good_x) : ~s.good_x[k]
  \/ \A k \in 1..Len(s.good_y) : ~s.good_y[k]

\* only the rows removed: the second slicing statement forgotten
TrimFieldRowsOnly(a, gy, gx) == BoolIndex(a, gy)

\* the array a field is rebound to by remove_nans
TrimField(a, gy, gx) == BoolIndex2(a, gy, gx)

\* the fields sliced, the axes and the extents left as they were
remove_nans_fields_only(s, mem) ==
  [s EXCEPT !.data = [k \in DOMAIN s.data |->
                        [ref |-> "own", key |-> k, flip |-> FALSE,
                         arr |-> TrimField(ViewOf(s.data[k], mem), s.good_y, s.good_x)]]]

\* remove_nans(): the object's attributes after the call (mem: the mapping)
remove_nans(s, mem) ==
  LET x == BoolIndex(s.x, s.good_x)
      y == BoolIndex(s.y, s.good_y)
  IN IF remove_nans_raises(s)
     THEN [s EXCEPT !.x = x, !.y = y]
     ELSE [s EXCEPT !.x = x, !.y = y,
                    !.x_min = SeqMin(x), !.x_max = SeqMax(x),
                    !.y_min = SeqMin(y), !.y_max = SeqMax(y),
                    !.nx = Len(x), !.ny = Len(y),
                    !.data = [k \in DOMAIN s.data |->
                                [ref |-> "own", key |-> k, flip |-> FALSE,
                                 arr |-> TrimField(ViewOf(s.data[k], mem),
                                                   s.good_y, s.good_x)]]]

\* Proj(" +proj=... +lon_0=..."), from the metadata of the first file
Proj(meta) == [proj |-> meta.projection, lon_0 |-> meta.lon_0]

\* the attributes set from the first file of the group
InitExtents(s, d, meta) ==
  LET ny == shape(d)[1]
      nx == shape(d)[2]
  IN [s EXCEPT !.ny = ny, !.nx = nx,
               !.x_min = meta.map_western_edge, !.x_max = meta.map_eastern_edge,
               !.y_min = meta.map_southern_edge, !.y_max = meta.map_northern_edge,
               !.x = linspace(meta.map_western_edge, meta.map_eastern_edge, nx),
               !.y = linspace(meta.map_southern_edge, meta.map_northern_edge, ny),
               !.good_x = [k \in 1..nx |-> TRUE],
               !.good_y = [k \in 1..ny |-> TRUE]]

\* ------------------------------------------------------- DataInput.__init__
NoneLoading == \A g \in Groups : pc[g] # "loading"

\* entry of the constructor, up to the loop over the files
DataInputBegin(g, a) ==
  /\ pc[g] = "none"
  /\ \A o \in Groups : pc[o] \in {"none", "done"}
  /\ g = "B" => pc["A"] = "done"
  /\ pc' = [pc EXCEPT ![g] = "loading"]
  /\ args' = [args EXCEPT ![g] = a]
  /\ di' = [di EXCEPT ![g] = NoDI]
  /\ last' = [op |-> "__init__", g |-> g, args |-> a, ret |-> << >>, raised |-> FALSE]
  /\ UNCHANGED <<mat, mg, files, disk, interps, calls>>

\* one iteration of the loop over the files
DataInputLoop(g) ==
  /\ pc[g] = "loading"
  /\ args[g].k < Len(args[g].files)
  /\ LET a    == args[g]
         fn   == a.files[a.k + 1]
         key  == Key(fn)
         d    == IF a.direc = "dict" THEN files[key] ELSE disk[key]
         s0   == IF a.k = 0 THEN InitExtents(di[g], d, MetaOf(a.direc)) ELSE di[g]
         s1   == identify_nans(s0, d)
         d1   == IF a.zero_edge THEN ZeroEdge(d) ELSE d
         d2   == IF a.bool_data THEN ToBool(d1) ELSE d1
         e    == IF a.direc = "dict"
                 THEN [ref |-> "files", key |-> key, flip |-> a.flip, arr |-> << >>]
                 ELSE [ref |-> "own", key |-> key, flip |-> FALSE,
                       arr |-> IF a.flip THEN FlipRows(d2) ELSE d2]
     IN /\ files' = IF a.direc = "dict" THEN [files EXCEPT ![key] = d2] ELSE files
        /\ di' = [di EXCEPT ![g] = [s1 EXCEPT !.data = (key :> e) @@ s1.data]]
        /\ args' = [args EXCEPT ![g].k = a.k + 1]
  /\ UNCHANGED <<mat, mg, disk, pc, interps, last, calls>>

\* after the loop: trim if dirty, create the projection
DataInputEnd(g) ==
  /\ pc[g] = "loading"
  /\ args[g].k = Len(args[g].files)
  /\ LET s  == di[g]
         s1 == IF s.rem_nans THEN remove_nans(s, files) ELSE s
         ok == ~(s.rem_nans /\ remove_nans_raises(s))
     IN /\ di' = [di EXCEPT ![g] = IF ok THEN [s1 EXCEPT !.p = Proj(MetaOf(args[g].direc))]
                                   ELSE s1]
        /\ pc' = [pc EXCEPT ![g] = IF ok THEN "done" ELSE "failed"]
  /\ UNCHANGED <<mat, mg, files, disk, args, interps, last, calls>>

\* ------------------------------------------------------ the external mesh
\* vertices of the mesh every group is given (mesh=mesh): on the grid, between
\* two grid lines, and outside the rasters' extent
MeshVertices ==
  << <<0, 0>>, <<1, 2>>, <<4, 4>>, <<2 * (NX - 1), 2 * (NY - 1)>>, <<2 * NX + 1, 2>> >>

\* pyproj.transform(p1, p2, x, y): a point given in p1, in the coordinates of p2
transform(p1, p2, x, y) == <<x + (p1.lon_0 - p2.lon_0), y>>

\* ------------------------------------------------------------- interpolants
\* the array an interpolant samples: the nearest interpolant keeps the
\* field's array object, the spline is fitted to the values at construction
SampledArray(i) == IF i.kind = "nearest" THEN Deref(i.g, i.fn) ELSE i.snap

\* self.chg_proj of the expression object, as its eval reads it
ExprChgProj(i) == i.chg_proj

\* the projection state read from the group at evaluation, not from the
\* expression object
QueryPointLive(i, x, y) ==
  IF di[i.g].chg_proj THEN transform(di[i.g].new_p, di[i.g].p, x, y) ELSE <<x, y>>

\* the query point in the coordinates of the data
QueryPoint(i, x, y) ==
  IF ExprChgProj(i) THEN transform(i.new_proj, i.old_proj, x, y) ELSE <<x, y>>

\* eval raises (NameError) when it takes the transform branch and the build
\* did not bind new_proj and old_proj
EvalRaises(i) == ExprChgProj(i) /\ i.new_proj = NoProj

\* nearestExpression.eval / newExpression.eval at (x, y)
Eval(i, x, y) ==
  LET q == QueryPoint(i, x, y)
  IN IF i.kind = "nearest"
     THEN SampledArray(i)[argmin_abs(i.ys, q[2])][argmin_abs(i.xs, q[1])]
     ELSE [spline |-> <<i.xs, i.ys, i.snap, i.kx, i.ky>>, at |-> q]

\* the expression object get_nearest_expression returns; d is the field's array
nearestExpression(g, fn, s) ==
  [ kind |-> "nearest", g |-> g, fn |-> fn, xs |-> s.x, ys |-> s.y,
    chg_proj |-> s.chg_proj,
    new_proj |-> IF s.chg_proj THEN s.new_p ELSE NoProj,
    old_proj |-> IF s.chg_proj THEN s.p ELSE NoProj,
    kx |-> 0, ky |-> 0, snap |-> << >> ]

\* the expression object get_spline_expression returns
newExpression(g, fn, s, d, kx, ky) ==
  [ kind |-> "spline", g |-> g, fn |-> fn, xs |-> s.x, ys |-> s.y,
    chg_proj |-> s.chg_proj,
    new_proj |-> IF s.chg_proj THEN s.new_p ELSE NoProj,
    old_proj |-> IF s.chg_proj THEN s.p ELSE NoProj,
    kx |-> kx, ky |-> ky, snap |-> d ]

\* RectBivariateSpline needs more samples than the degree on each axis
SplineFits(s, kx, ky) == s.nx > kx /\ s.ny > ky

\* the thresholding left out
ThresholdedNever(d, bool_data) == d

\* the thresholding done whatever the flag
ThresholdedAlways(d, bool_data) == ToBool(d)

\* the field's array after the optional in-place thresholding of a build
Thresholded(d, bool_data) == IF bool_data THEN ToBool(d) ELSE d

\* project(interp, space) / interpolate(interp, space): the mesh field, by
\* its vertex values
Function(space, how, interp) ==
  [ space |-> space,
    values |-> [v \in 1..Len(MeshVertices) |->
                  [kind |-> how, of |-> interp, val |-> 0, vertex |-> v]] ]

\* a number of the raster, stored as the value of vertex v of a mesh field
Raw(dv, v) == [kind |-> "raw", of |-> [kind |-> "none"], val |-> dv, vertex |-> v]

\* the driver constructs its groups first and then works with them
Ready(g) == (\A o \in Groups : pc[o] = "done") /\ calls < MaxCalls

\* the last call made on a group: its arguments and what it returned
Call(op, g, a, r) == [op |-> op, g |-> g, args |-> a, ret |-> r, raised |-> FALSE]

\* a call that ended with an exception
Raised(op, g, a) == [op |-> op, g |-> g, args |-> a, ret |-> << >>, raised |-> TRUE]

\* the state after the array d was written through field fn of group g
WriteField(g, fn, d) ==
  /\ files' = WriteThrough(di[g].data[fn], d, files)
  /\ di' = [di EXCEPT ![g].data[fn] = Written(di[g].data[fn], d)]

get_nearest_expression(g, fn, bool_data) ==
  /\ Ready(g) /\ fn \in DOMAIN di[g].data
  /\ LET d == Thresholded(Deref(g, fn), bool_data)
         i == nearestExpression(g, fn, di[g])
     IN /\ WriteField(g, fn, d)
        /\ interps' = interps \cup {i}
        /\ last' = Call("get_nearest_expression", g, <<fn, bool_data>>, i)
  /\ calls' = calls + 1
  /\ UNCHANGED <<mat, mg, disk, pc, args>>

get_spline_expression(g, fn, kx, ky, bool_data) ==
  /\ Ready(g) /\ fn \in DOMAIN di[g].data
  /\ LET d == Thresholded(Deref(g, fn), bool_data)
         i == newExpression(g, fn, di[g], d, kx, ky)
     IN /\ WriteField(g, fn, d)
        /\ IF SplineFits(di[g], kx, ky)
           THEN /\ interps' = interps \cup {i}
                /\ last' = Call("get_spline_expression", g, <<fn, kx, ky, bool_data>>, i)
           ELSE /\ interps' = interps
                /\ last' = Raised("get_spline_expression", g, <<fn, kx, ky, bool_data>>)
  /\ calls' = calls + 1
  /\ UNCHANGED <<mat, mg, disk, pc, args>>

\* get_projection(fn, dg, near, bool_data, kx, ky)
get_projection(g, fn, a) ==
  /\ Ready(g) /\ fn \in DOMAIN di[g].data
  /\ LET d == Thresholded(Deref(g, fn), a.bool_data)
         i == IF a.dg \/ a.near THEN nearestExpression(g, fn, di[g])
              ELSE newExpression(g, fn, di[g], d, a.kx, a.ky)
         sp == IF a.dg THEN "DG" ELSE "CG"
     IN /\ WriteField(g, fn, d)
        /\ last' = IF a.dg \/ a.near \/ SplineFits(di[g], a.kx, a.ky)
                   THEN Call("get_projection", g, <<fn, a>>, Function(sp, "project", i))
                   ELSE Raised("get_projection", g, <<fn, a>>)
  /\ calls' = calls + 1
  /\ UNCHANGED <<mat, mg, disk, pc, args, interps>>

\* get_interpolation(fn, kx, ky)
get_interpolation(g, fn, kx, ky) ==
  /\ Ready(g) /\ fn \in DOMAIN di[g].data
  /\ LET i == newExpression(g, fn, di[g], Deref(g, fn), kx, ky)
     IN last' = IF SplineFits(di[g], kx, ky)
                THEN Call("get_interpolation", g, <<fn, kx, ky>>,
                          Function("CG", "interpolate", i))
                ELSE Raised("get_interpolation", g, <<fn, kx, ky>>)
  /\ calls' = calls + 1
  /\ UNCHANGED <<mat, mg, files, disk, pc, args, di, interps>>

\* ------------------------------------------------------- editing operations
SetMin(d, boundary, val) == MaskedAssign(d, LeMask(d, boundary), val)
SetMax(d, boundary, val) == MaskedAssign(d, GeMask(d, boundary), val)
SetVal(d, old_val, new_val) == MaskedAssign(d, EqMask(d, old_val), new_val)

Edit(op, g, fn, d, a) ==
  /\ Ready(g) /\ fn \in DOMAIN di[g].data
  /\ WriteField(g, fn, d)
  /\ calls' = calls + 1
  /\ last' = Call(op, g, <<fn, a>>, << >>)
  /\ UNCHANGED <<mat, mg, disk, pc, args, interps>>

set_data_min(g, fn, boundary, val) ==
  Edit("set_data_min", g, fn, SetMin(Deref(g, fn), boundary, val), <<boundary, val>>)

set_data_max(g, fn, boundary, val) ==
  Edit("set_data_max", g, fn, SetMax(Deref(g, fn), boundary, val), <<boundary, val>>)

set_data_val(g, fn, old_val, new_val) ==
  Edit("set_data_val", g, fn, SetVal(Deref(g, fn), old_val, new_val), <<old_val, new_val>>)

\* ---------------------------------------------------------- change_projection
\* a declaration that keeps the target of an earlier one
change_projection_first_wins(g, o) ==
  /\ Ready(g) /\ pc[o] = "done"
  /\ di' = [di EXCEPT ![g].chg_proj = TRUE,
                      ![g].new_p = IF di[g].chg_proj THEN di[g].new_p ELSE di[o].p]
  /\ last' = Call("change_projection", g, <<o>>, << >>)
  /\ calls' = calls + 1
  /\ UNCHANGED <<mat, mg, files, disk, pc, args, interps>>

change_projection(g, o) ==
  /\ Ready(g) /\ pc[o] = "done"
  /\ di' = [di EXCEPT ![g].chg_proj = TRUE, ![g].new_p = di[o].p]
  /\ last' = Call("change_projection", g, <<o>>, << >>)
  /\ calls' = calls + 1
  /\ UNCHANGED <<mat, mg, files, disk, pc, args, interps>>

\* ------------------------------------------------------------ integrate_field
Max2(a, b) == IF a > b THEN a ELSE b
Min2(a, b) == IF a < b THEN a ELSE b

\* d[max(0,idy-r) : min(ny,idy+r), max(0,idx-r) : min(nx,idx+r)], as the set of
\* its cells; idy, idx count from 1 here, the slice bounds from 0
Window(idy, idx, r, ny, nx) ==
  { <<i, j>> : i \in (Max2(0, idy - 1 - r) + 1)..Min2(ny, idy - 1 + r),
               j \in (Max2(0, idx - 1 - r) + 1)..Min2(nx, idx - 1 + r) }

\* the two inner branches as the comment in the loop words them
AssimilatedAsCommented(d, xs, ys, ny, nx, v, r, val, main, spec) ==
  LET idx == argmin_abs(xs, MeshVertices[v][1])
      idy == argmin_abs(ys, MeshVertices[v][2])
      dv  == d[idy][idx]
  IN IF Gt(dv, val)
     THEN IF \A c \in Window(idy, idx, r, ny, nx) : Gt(d[c[1]][c[2]], val)
          THEN Raw(dv, v)
          ELSE spec
     ELSE main

\* the value of one vertex: uocom[i] after the loop body
Assimilated(d, xs, ys, ny, nx, v, r, val, main, spec) ==
  LET idx == argmin_abs(xs, MeshVertices[v][1])
      idy == argmin_abs(ys, MeshVertices[v][2])
      dv  == d[idy][idx]
  IN IF Gt(dv, val)
     THEN IF \A c \in Window(idy, idx, r, ny, nx) : Gt(d[c[1]][c[2]], val)
          THEN spec
          ELSE Raw(dv, v)
     ELSE main

DefaultProjection == [dg |-> FALSE, near |-> FALSE, bool_data |-> FALSE, kx |-> 3, ky |-> 3]

\* integrate_field(fn_spec, specific, fn_main, r, val) of group g
integrate_field(g, fn_spec, specific, fn_main, r, val) ==
  /\ Ready(g) /\ pc[specific] = "done"
  /\ fn_main \in DOMAIN di[g].data /\ fn_spec \in DOMAIN di[specific].data
  /\ SplineFits(di[g], 3, 3) /\ SplineFits(di[specific], 3, 3)
  /\ LET unew  == Function("CG", "project",
                           newExpression(g, fn_main, di[g], Deref(g, fn_main), 3, 3))
         uspec == Function("CG", "project",
                           newExpression(specific, fn_spec, di[specific],
                                         Deref(specific, fn_spec), 3, 3))
         d     == Deref(specific, fn_spec)
         s     == di[specific]
     IN last' = Call("integrate_field", g, <<fn_spec, specific, fn_main, r, val>>,
                     [unew EXCEPT !.values =
                        [v \in 1..Len(MeshVertices) |->
                           Assimilated(d, s.x, s.y, s.ny, s.nx, v, r, val,
                                       unew.values[v], uspec.values[v])]])
  /\ calls' = calls + 1
  /\ UNCHANGED <<mat, mg, files, disk, pc, args, di, interps>>

\* --------------------------------------------------------------- the inputs
FileLists(direc) ==
  IF direc = "dict"
  THEN {<<"h", "b">>, <<"b", "h">>, <<"h">>}
  ELSE {<<"h.mat", "b.mat">>, <<"b.mat", "h.mat">>, <<"h.mat">>}

Cfg(direc, fl, flip, ze, bd) ==
  [ direc |-> direc, files |-> fl, flip |-> flip, zero_edge |-> ze,
    bool_data |-> bd, k |-> 0 ]

CfgsLoad ==
  { Cfg(direc, fl, flip, ze, bd) :
      direc \in {"dict"}, fl \in FileLists("dict"),
      flip \in BOOLEAN, ze \in BOOLEAN, bd \in BOOLEAN }
  \cup
  { Cfg(direc, fl, flip, ze, bd) :
      direc \in {"disk"}, fl \in FileLists("disk"),
      flip \in BOOLEAN, ze \in BOOLEAN, bd \in BOOLEAN }

InitWith(R) ==
  /\ files \in [Keys -> R]
  /\ disk = files
  /\ pc = [g \in Groups |-> "none"]
  /\ args = [g \in Groups |-> NoArgs]
  /\ di = [g \in Groups |-> NoDI]
  /\ interps = {}
  /\ last = NoCall
  /\ calls = 0
  /\ mg = NoMG
  /\ mat = NoMat

InitLoad == InitWith(RastersLoad)

NextLoad ==
  \/ \E a \in CfgsLoad : DataInputBegin("A", a)
  \/ DataInputLoop("A")
  \/ DataInputEnd("A")

SpecLoad == InitLoad /\ [][NextLoad]_vars

\* ------------------------------------------------------ the driver's choices
\* Spec: two groups on few rasters, every operation of DataInput
CfgsOps ==
  { Cfg("dict", <<"h", "b">>, FALSE, FALSE, FALSE),
    Cfg("dict", <<"h", "b">>, TRUE, FALSE, TRUE),
    Cfg("disk", <<"b.mat", "h.mat">>, FALSE, TRUE, FALSE) }

OpKeys == {"h"}

ProjArgs ==
  { DefaultProjection,
    [DefaultProjection EXCEPT !.near = TRUE, !.bool_data = TRUE],
    [DefaultProjection EXCEPT !.dg = TRUE] }

MinArgs == {<<0, -2000>>}
MaxArgs == {<<2000, 1000>>}
ValArgs == {<<1000, 3000>>}

Init == InitWith(RastersOps)

Construct(C) ==
  \/ \E g \in Groups, a \in C : DataInputBegin(g, a)
  \/ \E g \in Groups : DataInputLoop(g)
  \/ \E g \in Groups : DataInputEnd(g)

Next ==
  \/ Construct(CfgsOps)
  \/ \E g \in Groups, fn \in OpKeys, b \in BOOLEAN : get_nearest_expression(g, fn, b)
  \/ \E g \in Groups, fn \in OpKeys, b \in BOOLEAN : get_spline_expression(g, fn, 3, 3, b)
  \/ \E g \in Groups, fn \in OpKeys, a \in ProjArgs : get_projection(g, fn, a)
  \/ \E g \in Groups, fn \in OpKeys : get_interpolation(g, fn, 3, 3)
  \/ \E g \in Groups, fn \in Keys, a \in MinArgs : set_data_min(g, fn, a[1], a[2])
  \/ \E g \in Groups, fn \in Keys, a \in MaxArgs : set_data_max(g, fn, a[1], a[2])
  \/ \E g \in Groups, fn \in Keys, a \in ValArgs : set_data_val(g, fn, a[1], a[2])
  \/ \E g \in Groups, o \in Groups : change_projection(g, o)
  \/ \E g \in Groups : \E o \in Groups \ {g}, fn \in OpKeys :
       integrate_field(g, fn, o, fn, 1, 0)

Spec == Init /\ [][Next]_vars

\* SpecAssim: two groups, every argument of integrate_field
CfgsAssim ==
  { Cfg("dict", <<"h", "b">>, FALSE, FALSE, FALSE),
    Cfg("dict", <<"b", "h">>, TRUE, FALSE, FALSE),
    Cfg("disk", <<"h.mat", "b.mat">>, FALSE, FALSE, FALSE) }

Radii == {0, 1, 2, 20}
Floors == {0, 1000}

NextAssim ==
  \/ Construct(CfgsAssim)
  \/ \E g \in Groups : \E o \in Groups \ {g}, fs \in Keys, fm \in Keys,
                          r \in Radii, val \in Floors :
       integrate_field(g, fs, o, fm, r, val)

\* the rasters of the assimilation runs: one that rises with x and crosses
\* the floor on the low side, one above the floor but for a hole on the high
\* side of the cell nearest to a mesh vertex
RastersAssim ==
  { Raster(s) : s \in
     { RSpec("ramp", {}, {}, {}),
       RSpec("flat", {}, {}, {<<3, 4>>}) } }

InitAssim == InitWith(RastersAssim)

SpecAssim == InitAssim /\ [][NextAssim]_vars

\* =============================================================== DataOutput
\* f(x, y) for a mesh function f: the value, or that the evaluation raised.
\* What f holds and where it cannot be evaluated belongs to the caller.
FEval(f, x, y) ==
  [ raised |-> CASE f.raises = "never" -> FALSE
                 [] f.raises = "far" -> x + y > f.reach
                 [] OTHER -> TRUE,
    v |-> f.a * x + f.b * y + f.c ]

\* the two arguments of f exchanged
ResampledSwapped(s, f, val) ==
  [i \in 1..Len(s.y) |-> [j \in 1..Len(s.x) |->
     LET r == FEval(f, s.y[i], s.x[j]) IN IF r.raised THEN val ELSE r.v]]

\* fa after the two loops: fa[i, j] = f(x, y) for x = di.x[j], y = di.y[i],
\* and val where the evaluation raised
Resampled(s, f, val) ==
  [i \in 1..Len(s.y) |-> [j \in 1..Len(s.x) |->
     LET r == FEval(f, s.x[j], s.y[i]) IN IF r.raised THEN val ELSE r.v]]

\* savemat(outfile, {...})
write_matlab(g, f, outfile, val) ==
  /\ pc[g] = "done"
  /\ calls < MaxCalls
  /\ mat' = [ written |-> TRUE, map_name |-> outfile,
              map_data |-> Resampled(di[g], f, val),
              map_eastern_edge |-> di[g].x_max, map_western_edge |-> di[g].x_min,
              map_northern_edge |-> di[g].y_max, map_southern_edge |-> di[g].y_min,
              projection |-> di[g].p.proj, lon_0 |-> di[g].p.lon_0 ]
  /\ last' = Call("write_matlab", g, <<f, outfile, val>>, << >>)
  /\ calls' = calls + 1
  /\ UNCHANGED <<mg, files, disk, pc, args, di, interps>>

\* the mesh functions written: evaluable everywhere, only near the origin,
\* nowhere
MeshFunctions ==
  { [a |-> 1, b |-> 3, c |-> 5, raises |-> "never", reach |-> 0],
    [a |-> 1, b |-> 3, c |-> 5, raises |-> "far", reach |-> 6],
    [a |-> 2, b |-> 0, c |-> 0, raises |-> "always", reach |-> 0] }

\* the default val = -2e9 and a caller's own
Sentinels == {-2000000000, 0}

CfgsOut == { c \in CfgsLoad : ~c.zero_edge /\ ~c.bool_data }

NextOut ==
  \/ \E a \in CfgsOut : DataInputBegin("A", a)
  \/ DataInputLoop("A")
  \/ DataInputEnd("A")
  \/ \E f \in MeshFunctions, val \in Sentinels : write_matlab("A", f, "out.mat", val)

SpecOut == InitLoad /\ [][NextOut]_vars

\* ============================================================ MeshGenerator
\* one f.write(...) to the .geo file: the statement written
Stmt(kind, id, nums, text) == [kind |-> kind, id |-> id, nums |-> nums, text |-> text]

Comment(text) == Stmt("Comment", 0, << >>, text)

\* Field[fd] = <type>; and Field[fd].<name> = <value>;
FieldIs(fd, type) == Stmt("Field", fd, << >>, type)
FieldAttr(fd, name, nums) == Stmt("FieldAttr", fd, nums, name)

\* MeshGenerator(dd, fn, direc): the file opened for writing, no field yet
MeshGeneratorInit(g) ==
  /\ pc[g] = "done"
  /\ ~mg.made
  /\ mg' = [NoMG EXCEPT !.made = TRUE]
  /\ last' = Call("MeshGenerator", g, << >>, << >>)
  /\ UNCHANGED <<mat, files, disk, pc, args, di, interps, calls>>

MeshReady == mg.made /\ calls < MaxMeshCalls

\* the result of a MeshGenerator method: the object after it, what the call
\* was, and whether it raised
MeshCall(op, a, m, raised) ==
  /\ MeshReady
  /\ mg' = m
  /\ last' = IF raised THEN Raised(op, "A", a) ELSE Call(op, "A", a, << >>)
  /\ calls' = calls + 1
  /\ UNCHANGED <<mat, files, disk, pc, args, di, interps>>

\* ------------------------------------------------------------ create_contour
\* the index of the first component of the greatest size (amax starts at 0,
\* ind at the first component)
LongestIndex(cl) ==
  IF \A k \in 1..Len(cl) : Len(cl[k]) = 0 THEN 1
  ELSE CHOOSE k \in 1..Len(cl) :
         /\ \A m \in 1..Len(cl) : Len(cl[m]) <= Len(cl[k])
         /\ \A m \in 1..(k - 1) : Len(cl[m]) < Len(cl[k])

\* a[::n, :]
EveryNth(a, n) == [k \in 1..((Len(a) + n - 1) \div n) |-> a[(k - 1) * n + 1]]

\* a[:-1, :]
DropLast(a) == SubSeq(a, 1, Len(a) - 1)

\* cl = self.c.allsegs[0] is what the contouring library returned
create_contour(cl, skip_pts) ==
  IF Len(cl) = 0
  THEN MeshCall("create_contour", <<cl, skip_pts>>, mg, TRUE)
  ELSE MeshCall("create_contour", <<cl, skip_pts>>,
                [mg EXCEPT !.has_cont = TRUE,
                           !.longest_cont = DropLast(EveryNth(cl[LongestIndex(cl)], skip_pts))],
                FALSE)

\* --------------------------------------------------- eliminate_intersections
ccw(A, B, C) == (C[2] - A[2]) * (B[1] - A[1]) > (B[2] - A[2]) * (C[1] - A[1])

intersect(A, B, C, D) == ccw(A, C, D) # ccw(B, C, D) /\ ccw(A, B, C) # ccw(A, B, D)

\* the start vertex of the earlier segment flagged, not its end vertex
FlaggedEarlierStart(lc, dist) ==
  { k \in 1..Len(lc) :
      \E ii \in 0..(Len(lc) - 2) : \E jj \in ii..(Min2(ii + dist, Len(lc) - 1) - 1) :
        /\ intersect(lc[ii + 1], lc[ii + 2], lc[jj + 1], lc[jj + 2])
        /\ ii # jj + 1 /\ ii + 1 # jj
        /\ k = ii + 1 \/ k = jj + 1 }

\* only the vertex of the later segment flagged
FlaggedLaterOnly(lc, dist) ==
  { k \in 1..Len(lc) :
      \E ii \in 0..(Len(lc) - 2) : \E jj \in ii..(Min2(ii + dist, Len(lc) - 1) - 1) :
        /\ intersect(lc[ii + 1], lc[ii + 2], lc[jj + 1], lc[jj + 2])
        /\ ii # jj + 1 /\ ii + 1 # jj
        /\ k = jj + 1 }

\* the vertices whose flag is 0 after the two loops (counted from 1; ii and
\* jj count from 0 as in the code)
Flagged(lc, dist) ==
  { k \in 1..Len(lc) :
      \E ii \in 0..(Len(lc) - 2) : \E jj \in ii..(Min2(ii + dist, Len(lc) - 1) - 1) :
        /\ intersect(lc[ii + 1], lc[ii + 2], lc[jj + 1], lc[jj + 2])
        /\ ii # jj + 1 /\ ii + 1 # jj
        /\ k = ii + 2 \/ k = jj + 1 }

\* new_cont: the vertices still flagged 1, in order
Unflagged(lc, dist) == BoolIndex(lc, [k \in 1..Len(lc) |-> k \notin Flagged(lc, dist)])

eliminate_intersections(dist) ==
  IF ~mg.has_cont
  THEN MeshCall("eliminate_intersections", <<dist>>, mg, TRUE)
  ELSE MeshCall("eliminate_intersections", <<dist>>,
                [mg EXCEPT !.longest_cont = Unflagged(mg.longest_cont, dist)], FALSE)

\* ------------------------------------------------------------------- restart
\* self.f.close is not a call: the old handle is left open and the file is
\* opened again for writing, which empties it; what the old handle still
\* buffered may reach the file when the handle is collected
restart ==
  \E kept \in {<< >>, mg.f} :
    MeshCall("restart", << >>, [mg EXCEPT !.f = kept], FALSE)

\* -------------------------------------------------------- write_gmsh_contour
GeoPoints(c) == [i \in 1..Len(c) |-> Stmt("Point", i - 1, c[i], "")]

\* the closing segment left out
GeoLinesOpen(pts) ==
  [i \in 1..(IF pts > 1 THEN pts - 1 ELSE 0) |-> Stmt("Line", i - 1, <<i - 1, i>>, "")]

\* Line(i) = {i, i+1} for i in range(pts-1), then Line(pts-1) = {pts-1, 0}
GeoLines(pts) ==
  [i \in 1..(IF pts > 1 THEN pts - 1 ELSE 0) |-> Stmt("Line", i - 1, <<i - 1, i>>, "")]
  \o << Stmt("Line", pts - 1, <<pts - 1, 0>>, "") >>

\* loop = "{0,1,...,pts-1}"
GeoLoop(pts) == [i \in 1..(IF pts > 1 THEN pts - 1 ELSE 0) |-> i - 1] \o <<pts - 1>>

write_gmsh_contour(lc, boundary_extend) ==
  IF ~mg.has_cont
  THEN MeshCall("write_gmsh_contour", <<lc, boundary_extend>>, mg, TRUE)
  ELSE LET c   == mg.longest_cont
           pts == Len(c)
           out == << Comment("// Mesh spacing"), Stmt("lc", 0, <<lc>>, "") >>
                  \o << Comment("// Points") >> \o GeoPoints(c)
                  \o << Comment("// Lines") >> \o GeoLines(pts)
                  \o << Comment("// Line loop"),
                        Stmt("Line Loop", pts + 1, GeoLoop(pts), ""),
                        Comment("// Surface"),
                        Stmt("Plane Surface", pts + 2, <<pts + 1>>, "") >>
                  \o (IF boundary_extend THEN << >>
                      ELSE << Stmt("Option", 0, <<0>>,
                                   "Mesh.CharacteristicLengthExtendFromBoundary") >>)
       IN MeshCall("write_gmsh_contour", <<lc, boundary_extend>>,
                   [mg EXCEPT !.f = mg.f \o out, !.has_geo = TRUE,
                              !.surf_num = pts + 2, !.pts = pts, !.loop = GeoLoop(pts)],
                   FALSE)

\* ------------------------------------------------------------------- extrude
extrude(h, n_layers) ==
  IF ~mg.has_geo
  THEN MeshCall("extrude", <<h, n_layers>>, mg, TRUE)
  ELSE MeshCall("extrude", <<h, n_layers>>,
                [mg EXCEPT !.f = Append(mg.f, Stmt("Extrude", 0,
                                                   <<h, mg.surf_num, n_layers>>, ""))],
                FALSE)

\* -------------------------------------------------------- refinement fields
\* the first line is written, the second is str + float: a TypeError
add_box(field, vin) ==
  MeshCall("add_box", <<field, vin>>,
           [mg EXCEPT !.f = Append(mg.f, FieldIs(field, "Box"))], TRUE)

\* the first line is written before self.loop is read; the field is not
\* appended to fieldList
add_edge_attractor(field) ==
  IF ~mg.has_geo
  THEN MeshCall("add_edge_attractor", <<field>>,
                [mg EXCEPT !.f = Append(mg.f, FieldIs(field, "Attractor"))], TRUE)
  ELSE MeshCall("add_edge_attractor", <<field>>,
                [mg EXCEPT !.f = mg.f \o << FieldIs(field, "Attractor"),
                                            FieldAttr(field, "NodesList", mg.loop),
                                            FieldAttr(field, "NNodesByEdge", <<100>>) >>],
                FALSE)

add_threshold(field, ifield, lcMin, lcMax, distMin, distMax) ==
  MeshCall("add_threshold", <<field, ifield, lcMin, lcMax, distMin, distMax>>,
           [mg EXCEPT !.f = mg.f \o << FieldIs(field, "Threshold"),
                                       FieldAttr(field, "IField", <<ifield>>),
                                       FieldAttr(field, "LcMin", <<lcMin>>),
                                       FieldAttr(field, "LcMax", <<lcMax>>),
                                       FieldAttr(field, "DistMin", <<distMin>>),
                                       FieldAttr(field, "DistMax", <<distMax>>) >>,
                      !.fieldList = Append(mg.fieldList, field)],
           FALSE)

\* -------------------------------------------------------------------- finish
\* f.close is not a call: the file stays open
finish(field) ==
  MeshCall("finish", <<field>>,
           [mg EXCEPT !.f = mg.f \o
              (IF Len(mg.fieldList) > 0
               THEN << FieldIs(field, "Min"),
                       FieldAttr(field, "FieldsList", mg.fieldList),
                       Stmt("Background Field", field, << >>, "") >>
               ELSE << Stmt("Background Field", field, << >>, "") >>)],
           FALSE)

\* ------------------------------------------------- inputs of the generator
P(x, y) == <<x, y>>

\* a closed square contour (the last vertex repeats the first), a short open
\* one, and a component of one vertex
SquareContour == << P(1, 1), P(2, 1), P(2, 2), P(1, 2), P(1, 1) >>
ShortContour == << P(0, 0), P(0, 1) >>
DotContour == << P(0, 0) >>

\* what contour() returns: no component, one, several
ContoursMesh == { << >>, <<ShortContour, SquareContour>>, <<ShortContour>>, <<DotContour>> }

RastersMesh == { Raster(RSpec("ramp", {}, {}, {})) }

CfgsMesh == { Cfg("dict", <<"h">>, FALSE, FALSE, FALSE) }

InitMesh == InitWith(RastersMesh)

NextMesh ==
  \/ \E a \in CfgsMesh : DataInputBegin("A", a)
  \/ DataInputLoop("A")
  \/ DataInputEnd("A")
  \/ MeshGeneratorInit("A")
  \/ \E cl \in ContoursMesh : create_contour(cl, 1)
  \/ eliminate_intersections(10)
  \/ restart
  \/ \E b \in BOOLEAN : write_gmsh_contour(5, b)
  \/ extrude(1, 2)
  \/ add_box(1, 7)
  \/ add_edge_attractor(1)
  \/ \E fd \in {1, 2} : add_threshold(fd, 1, 1, 2, 3, 4)
  \/ finish(3)

SpecMesh == InitMesh /\ [][NextMesh]_vars

\* ===================================================================== claims
\* the array of a loaded field in the orientation it was read in (before the
\* row flip), as identify_nans was given it
LoadedArray(g, k) ==
  LET e == di[g].data[k]
  IN IF e.ref = "files" THEN files[e.key]
     ELSE IF args[g].flip THEN FlipRows(e.arr) ELSE e.arr

AllProcessed(g) ==
  /\ pc[g] \in {"loading", "done", "failed"}
  /\ args[g].k = Len(args[g].files)
  /\ args[g].k >= 1

\* the files of the group as they are on disk
FilesOf(g) == {disk[Key(args[g].files[n])] : n \in 1..Len(args[g].files)}

\* C1: after construction every field array of a group has the shape
\* (ny, nx), with ny the length of the y axis and nx the length of the x axis.
C1_SameShape ==
  \A g \in Groups : pc[g] = "done" =>
    /\ di[g].ny = Len(di[g].y)
    /\ di[g].nx = Len(di[g].x)
    /\ \A k \in DOMAIN di[g].data : shape(Deref(g, k)) = <<di[g].ny, di[g].nx>>

C1_Witness ==
  /\ pc["A"] = "done"
  /\ di["A"].rem_nans
  /\ DOMAIN di["A"].data = Keys
  /\ di["A"].ny < NY
  /\ di["A"].nx < NX

\* C6: when every file of a group has been processed, a column (row) is good
\* exactly if no field of the group has it entirely NaN, whatever the order
\* of the files, and the group is dirty exactly if some column or row is bad.
C6_MaskIsIntersection ==
  \A g \in Groups : AllProcessed(g) =>
    /\ di[g].good_x = [j \in 1..NX |-> \A d \in FilesOf(g) : \E i \in 1..NY : ~isnan(d[i][j])]
    /\ di[g].good_y = [i \in 1..NY |-> \A d \in FilesOf(g) : \E j \in 1..NX : ~isnan(d[i][j])]
    /\ di[g].rem_nans <=>
         \/ \E j \in 1..NX : ~di[g].good_x[j]
         \/ \E i \in 1..NY : ~di[g].good_y[i]

\* two files, each with an all-NaN column or row the other does not have
C6_Witness ==
  /\ AllProcessed("A")
  /\ Len(args["A"].files) = 2
  /\ LET d1 == disk[Key(args["A"].files[1])]
         d2 == disk[Key(args["A"].files[2])]
         bad(d) == {<<"col", j>> : j \in {j \in 1..NX : ~NotAllNanCols(d)[j]}}
                   \cup {<<"row", i>> : i \in {i \in 1..NY : ~NotAllNanRows(d)[i]}}
     IN /\ bad(d1) \ bad(d2) # {}
        /\ bad(d2) \ bad(d1) # {}
        /\ di["A"].rem_nans

\* C7: a second call of identify_nans with the field just processed (the array
\* as it is now, or with the values it was read with) changes neither mask
\* nor the dirty flag.
C7_IdentifyIdempotent ==
  \A g \in Groups : (pc[g] = "loading" /\ args[g].k >= 1) =>
    LET k == Key(args[g].files[args[g].k])
    IN /\ identify_nans(di[g], LoadedArray(g, k)) = di[g]
       /\ identify_nans(di[g], disk[k]) = di[g]

C7_Witness ==
  /\ pc["A"] = "loading"
  /\ args["A"].k = 1
  /\ di["A"].rem_nans
  /\ \E j \in 1..NX : ~di["A"].good_x[j]

StrictlyIncreasing(s) == \A i \in 1..(Len(s) - 1) : s[i] < s[i + 1]

\* s holds n values equally spaced from lo to hi (compared without division)
EvenlySpaced(s, lo, hi, n) ==
  /\ Len(s) = n
  /\ \A i \in 1..n : (s[i] - lo) * (n - 1) = (i - 1) * (hi - lo)

\* the true entries of the mask are neighbours: only edges were removed
Contiguous(mask) ==
  \A a \in 1..Len(mask), b \in 1..Len(mask), c \in 1..Len(mask) :
    (a < b /\ b < c /\ mask[a] /\ mask[c]) => mask[b]

HasAxes(g) == pc[g] = "done" \/ (pc[g] = "loading" /\ args[g].k >= 1)

CallOf(op, g) == calls' = calls + 1 /\ last'.op = op /\ last'.g = g

\* everything of a group but its arrays / the arrays its field names stand for
Attrs(g) == [di[g] EXCEPT !.data = << >>]
Arrays(g) == [k \in DOMAIN di[g].data |-> Deref(g, k)]

\* every value above 0 is 1
IsThresholded(d) ==
  \A i \in 1..Len(d) : \A j \in 1..Len(d[i]) : Gt(d[i][j], 0) => d[i][j] = One

C3_NoSideEffect ==
  [][\A g \in Groups :
       (CallOf("get_projection", g) \/ CallOf("get_interpolation", g)) =>
         /\ Attrs(g)' = Attrs(g)
         /\ Arrays(g)' = Arrays(g)]_vars

\* C3 amended: both calls leave the axes, the extents and every other field
\* of the source group as they were; the named field's array is unchanged
\* too, except by get_projection with bool_data, which sets every value above
\* 0 of that array to 1.
C3_OnlyThresholding ==
  [][\A g \in Groups :
       /\ CallOf("get_interpolation", g) =>
            Attrs(g)' = Attrs(g) /\ Arrays(g)' = Arrays(g)
       /\ CallOf("get_projection", g) =>
            /\ Attrs(g)' = Attrs(g)
            /\ DOMAIN Arrays(g)' = DOMAIN Arrays(g)
            /\ \A k \in DOMAIN di[g].data :
                 Deref(g, k)' = IF k = last'.args[1] /\ last'.args[2].bool_data
                                THEN ToBool(Deref(g, k)) ELSE Deref(g, k)]_vars

\* get_projection with bool_data was the only call and it changed the array
C3_Witness ==
  /\ calls = 1 /\ last.op = "get_projection"
  /\ last.args[2].bool_data
  /\ \A g \in Groups : ~args[g].bool_data /\ ~args[g].zero_edge
  /\ IsThresholded(Deref(last.g, last.args[1]))
  /\ \E i \in 1..NY, j \in 1..NX : Gt(disk[last.args[1]][i][j], One)

\* the points the interpolants are compared at
Queries == {<<0, 0>>, <<3, 2>>, <<2 * (NX - 1), 2 * (NY - 1)>>, <<-2, 4>>}

\* C4 as stated: whatever is done after an interpolant was built, it returns
\* the same value at every point.
C4_Stateless ==
  [][\A i \in interps : \A q \in Queries :
       Eval(i, q[1], q[2])' = Eval(i, q[1], q[2])]_vars

\* C4 amended: a spline interpolant returns the same value whatever is done
\* afterwards; a nearest interpolant is unaffected by change_projection, and
\* returns the same value as long as the array it refers to is not edited.
C4_StatelessButArray ==
  [][\A i \in interps : \A q \in Queries :
       (\/ i.kind = "spline"
        \/ SampledArray(i)' = SampledArray(i)
        \/ last'.op = "change_projection")
         => Eval(i, q[1], q[2])' = Eval(i, q[1], q[2])]_vars

\* an interpolant built before its group was given a differing target
\* projection
C4_Witness ==
  /\ last.op = "change_projection"
  /\ \E i \in interps : i.g = last.g /\ ~i.chg_proj
  /\ di[last.g].chg_proj
  /\ di[last.g].new_p # di[last.g].p

\* C5: a build with bool_data sets every value above 0 of the field's array
\* to 1 in the array itself, and every build samples the array as it then is:
\* one made after a thresholding build, with or without bool_data, samples
\* the thresholded values.
C5_ThresholdPersists ==
  [][\A g \in Groups, fn \in Keys :
       (/\ CallOf("get_nearest_expression", g) \/ CallOf("get_spline_expression", g)
        /\ last'.args[1] = fn) =>
         LET b == last'.args[Len(last'.args)]
         IN /\ di'[g].data[fn].ref = di[g].data[fn].ref
            /\ Deref(g, fn)' = IF b THEN ToBool(Deref(g, fn)) ELSE Deref(g, fn)
            /\ IsThresholded(Deref(g, fn)) => IsThresholded(Deref(g, fn))'
            /\ ~last'.raised =>
                 \E i \in interps' :
                   /\ i = last'.ret
                   /\ SampledArray(i)' = Deref(g, fn)']_vars

\* two builds on one field, the second without bool_data, and the array is
\* thresholded although nothing but the first build can have done it
C5_Witness ==
  /\ calls = 2 /\ Cardinality(interps) = 2
  /\ last.op \in {"get_nearest_expression", "get_spline_expression"}
  /\ ~last.args[Len(last.args)]
  /\ \A g \in Groups : ~args[g].bool_data /\ ~args[g].zero_edge
  /\ \A i \in interps :
       /\ i.g = last.g /\ i.fn = last.args[1]
       /\ IsThresholded(SampledArray(i))
  /\ \E i \in 1..NY, j \in 1..NX : Gt(disk[last.args[1]][i][j], One)

\* the axes of group g as the first file gave them, before any trimming
UntrimmedX(g) ==
  LET m == MetaOf(args[g].direc)
  IN linspace(m.map_western_edge, m.map_eastern_edge, NX)

UntrimmedY(g) ==
  LET m == MetaOf(args[g].direc)
  IN linspace(m.map_southern_edge, m.map_northern_edge, NY)

IsMinOf(v, s) == (\E i \in 1..Len(s) : s[i] = v) /\ (\A i \in 1..Len(s) : v <= s[i])
IsMaxOf(v, s) == (\E i \in 1..Len(s) : s[i] = v) /\ (\A i \in 1..Len(s) : v >= s[i])

\* a constructed group is trimmed by its final masks, once and as a whole
TrimmedOnce(g) ==
  LET s == di[g]
  IN /\ s.x = BoolIndex(UntrimmedX(g), s.good_x)
     /\ s.y = BoolIndex(UntrimmedY(g), s.good_y)
     /\ s.nx = Len(s.x) /\ s.ny = Len(s.y)
     /\ \A k \in DOMAIN s.data : shape(Deref(g, k)) = <<s.ny, s.nx>>
     /\ s.rem_nans =>
          /\ IsMinOf(s.x_min, s.x) /\ IsMaxOf(s.x_max, s.x)
          /\ IsMinOf(s.y_min, s.y) /\ IsMaxOf(s.y_max, s.y)
          /\ \A k \in DOMAIN s.data : s.data[k].ref = "own"
     /\ (/\ s.rem_nans /\ calls = 0 /\ g = "A" /\ args[g].direc = "dict"
         /\ ~args[g].flip /\ ~args[g].zero_edge /\ ~args[g].bool_data) =>
          \A k \in DOMAIN s.data :
            Deref(g, k) = BoolIndex2(disk[k], s.good_y, s.good_x)

\* C8: the trim of a dirty group takes effect exactly once and on the whole
\* group (every field and both axes sliced by the final masks, extents the
\* min and max of the surviving coordinates), it is never repeated by a later
\* operation, and every interpolant is built on the trimmed axes and arrays.
C8_TrimOnceBeforeBuild ==
  /\ [](\A g \in Groups : pc[g] = "done" => TrimmedOnce(g))
  /\ [](\A i \in interps :
          /\ pc[i.g] = "done"
          /\ i.xs = di[i.g].x /\ i.ys = di[i.g].y
          /\ shape(SampledArray(i)) = <<Len(i.ys), Len(i.xs)>>)
  /\ [][\A g \in Groups : pc[g] = "done" =>
          /\ Attrs(g)' = [Attrs(g) EXCEPT !.chg_proj = di'[g].chg_proj,
                                          !.new_p = di'[g].new_p]
          /\ \A k \in DOMAIN di[g].data : shape(Deref(g, k))' = shape(Deref(g, k))]_vars

\* an interpolant built from a group that lost a row or a column
C8_Witness ==
  \E i \in interps :
    /\ di[i.g].rem_nans
    /\ DOMAIN di[i.g].data = Keys
    /\ Len(i.ys) < NY \/ Len(i.xs) < NX

\* the step edits field fn of group g: a set_data_* call, a thresholding
\* build, or the constructor's pass over one file (edge-zeroing, thresholding,
\* row flip)
EditOf(g, fn) ==
  \/ /\ calls' = calls + 1
     /\ last'.g = g
     /\ last'.op \in {"set_data_min", "set_data_max", "set_data_val",
                      "get_nearest_expression", "get_spline_expression",
                      "get_projection"}
     /\ last'.args[1] = fn
  \/ /\ pc[g] = "loading"
     /\ args'[g].k = args[g].k + 1
     /\ Key(args[g].files[args[g].k + 1]) = fn

\* C10: an editing operation on one field of one group leaves the array of
\* every other field, of the same group and of every other group, unchanged.
C10_OtherArraysUnchanged ==
  [][\A g \in Groups, fn \in Keys :
       EditOf(g, fn) =>
         \A o \in Groups : \A k \in DOMAIN di[o].data :
           (o # g \/ k # fn) => Deref(o, k)' = Deref(o, k)]_vars

\* the step is a build of an interpolant on group g that returned one
BuildOf(g) ==
  /\ CallOf("get_nearest_expression", g) \/ CallOf("get_spline_expression", g)
  /\ ~last'.raised

SupposedToReproject(g) == \E o \in Groups : pc[o] = "done" /\ di[o].p # di[g].p

\* C12: an interpolant of a group that should reproject and on which no
\* target was declared fails when it is evaluated.
C12_UndeclaredFailsAtEval ==
  \A i \in interps :
    (SupposedToReproject(i.g) /\ ~di[i.g].chg_proj) => EvalRaises(i)

\* C13 as stated: a nearest interpolant evaluated at the grid coordinate
\* (x[a], y[b]) of its dataset returns the sample data[b, a].
C13_GridPointIdentity ==
  \A i \in interps : i.kind = "nearest" =>
    \A a \in 1..Len(i.xs), b \in 1..Len(i.ys) :
      Eval(i, i.xs[a], i.ys[b]) = SampledArray(i)[b][a]

\* C13 amended: the same, for a nearest interpolant built while no
\* reprojection was declared on its group.
C13_GridPointIdentityNative ==
  \A i \in interps : (i.kind = "nearest" /\ ~i.chg_proj) =>
    \A a \in 1..Len(i.xs), b \in 1..Len(i.ys) :
      Eval(i, i.xs[a], i.ys[b]) = SampledArray(i)[b][a]

\* a nearest interpolant without reprojection over an array whose first two
\* columns differ
C13_Witness ==
  \E i \in interps :
    /\ i.kind = "nearest" /\ ~i.chg_proj
    /\ Len(i.xs) >= 3
    /\ SampledArray(i)[1][1] # SampledArray(i)[1][2]

\* ------------------------------------- inputs of the contour operations
\* the vertices of a 3 x 3 grid
GridPoints == { P(x, y) : x \in 0..2, y \in 0..2 }

\* the polylines of six distinct grid vertices that begin (0,0), (1,1), (0,1)
Polylines ==
  LET rest == GridPoints \ {P(0, 0), P(1, 1), P(0, 1)}
  IN { << P(0, 0), P(1, 1), P(0, 1), t[1], t[2], t[3] >> :
         t \in { u \in rest \X rest \X rest : u[1] # u[2] /\ u[1] # u[3] /\ u[2] # u[3] } }

\* a closed contour: the last vertex repeats the first
Closed(p) == Append(p, p[1])

\* a second square, as long as SquareContour
FarSquare == << P(5, 5), P(6, 5), P(6, 6), P(5, 6), P(5, 5) >>

\* a closed contour of six vertices
HexContour == Closed(<< P(1, 0), P(2, 0), P(3, 1), P(2, 2), P(1, 2), P(0, 1) >>)

\* an open contour: one that leaves the grid at both ends
OpenContour == << P(0, 1), P(1, 1), P(2, 2), P(3, 2) >>

Strides == {1, 2, 3}

\* the search windows: the default, and one shorter than the polylines
Dists == {10, 3}

\* the (components, skip_pts) create_contour is called with
ContourCalls ==
  ({ <<ShortContour, SquareContour>>, <<FarSquare, SquareContour>>,
     <<HexContour, ShortContour>>, <<OpenContour>> } \X Strides)
  \cup { << <<Closed(p)>>, 1 >> : p \in Polylines }

NextContour ==
  \/ \E a \in CfgsMesh : DataInputBegin("A", a)
  \/ DataInputLoop("A")
  \/ DataInputEnd("A")
  \/ MeshGeneratorInit("A")
  \/ \E c \in ContourCalls : create_contour(c[1], c[2])
  \/ \E d \in Dists : eliminate_intersections(d)

SpecContour == InitMesh /\ [][NextContour]_vars

\* ---------------------------------------------------------------- C14
\* a step that is a call of the MeshGenerator method op
MeshCallOf(op) == CallOf(op, "A")

MeshOps ==
  { "create_contour", "eliminate_intersections", "write_gmsh_contour", "extrude",
    "add_box", "add_edge_attractor", "add_threshold", "finish" }

\* finish has written its Background Field statement to the file
Finished == \E k \in 1..Len(mg.f) : mg.f[k].kind = "Background Field"

\* the method is called before the state it needs has been reached, or after
\* finish
OutOfOrder(op) ==
  \/ Finished
  \/ op \in {"eliminate_intersections", "write_gmsh_contour"} /\ ~mg.has_cont
  \/ op \in {"extrude", "add_box", "add_edge_attractor", "add_threshold", "finish"}
     /\ ~mg.has_geo

\* C14: a method called before its predecessor state is reached, or after
\* finish, does not succeed and writes nothing to the .geo file
C14_OutOfOrderRejected ==
  [][\A op \in MeshOps :
       (MeshCallOf(op) /\ OutOfOrder(op)) => (last'.raised /\ mg'.f = mg.f)]_vars


\* ---------------------------------------------------------------- C15
AddOps == {"add_box", "add_edge_attractor", "add_threshold"}

\* C15: every call of add_box, add_edge_attractor or add_threshold returns,
\* appends its whole instruction (the type line and its attributes) to the
\* file and appends its field identifier to fieldList
C15_EveryFieldRegistered ==
  [][\A op \in AddOps :
       MeshCallOf(op) =>
         /\ ~last'.raised
         /\ Len(mg'.f) > Len(mg.f) + 1
         /\ mg'.fieldList = Append(mg.fieldList, last'.args[1])]_vars


\* ---------------------------------------------------------------- C16
\* the field identifiers the calls are made with
FieldIds == {1, 2, 3}

\* C16: finish writes a Min field over the registered identifiers and makes
\* it the background field when at least one field is registered, and
\* declares no background field otherwise
C16_BackgroundSelection ==
  [][\A fd \in FieldIds :
       (MeshCallOf("finish") /\ last'.args[1] = fd) =>
         /\ ~last'.raised
         /\ mg'.f = mg.f \o
              (IF Len(mg.fieldList) > 0
               THEN << FieldIs(fd, "Min"),
                       FieldAttr(fd, "FieldsList", mg.fieldList),
                       Stmt("Background Field", fd, << >>, "") >>
               ELSE << >>)]_vars


\* ---------------------------------------------------------------- C17
\* the methods that write to the .geo file
WritingOps == {"write_gmsh_contour", "extrude", "finish"} \cup AddOps

\* C17: finish leaves the .geo file closed, and once finish has returned no
\* writing method appends a statement to the file
C17_FinishClosesSink ==
  [][/\ MeshCallOf("finish") => mg'.closed
     /\ \A op \in WritingOps : (Finished /\ MeshCallOf(op)) => mg'.f = mg.f]_vars


\* ---------------------------------------------------------------- C18
\* the statements of one kind among out, in the order written
OfKind(out, kind) == SelectSeq(out, LAMBDA s : s.kind = kind)

\* what a call appended to the file
Appended(f0, f1) == SubSeq(f1, Len(f0) + 1, Len(f1))

\* out describes the closed polygon over the vertices c: a Point per vertex,
\* a Line from each point to the next and from the last to the first, one
\* Line Loop over the lines and one Plane Surface over that loop
BoundaryOf(out, c) ==
  LET n  == Len(c)
      pt == OfKind(out, "Point")
      ln == OfKind(out, "Line")
      lp == OfKind(out, "Line Loop")
      sf == OfKind(out, "Plane Surface")
  IN /\ Len(pt) = n
     /\ \A i \in 1..n : pt[i].id = i - 1 /\ pt[i].nums = c[i]
     /\ Len(ln) = n
     /\ \A i \in 1..n : ln[i].id = i - 1 /\ ln[i].nums = <<i - 1, i % n>>
     /\ Len(lp) = 1
     /\ Len(lp[1].nums) = n
     /\ \A i \in 1..n : lp[1].nums[i] = i - 1
     /\ Len(sf) = 1
     /\ sf[1].nums = <<lp[1].id>>
     /\ sf[1].id # lp[1].id

\* a call of write_gmsh_contour that returned
Wrote == MeshCallOf("write_gmsh_contour") /\ ~last'.raised

\* C18 (as stated): for a polyline of n vertices write_gmsh_contour appends n
\* Points, n Lines where line i joins point i to point (i+1) mod n, one Line
\* Loop over lines 0..n-1 and one Plane Surface over that loop, with distinct
\* loop and surface identifiers
C18_BoundaryStatements ==
  [][Wrote => BoundaryOf(Appended(mg.f, mg'.f), mg.longest_cont)]_vars

\* C18 (amended): the same for a polyline of at least one vertex
C18_BoundaryStatementsNonEmpty ==
  [][(Wrote /\ Len(mg.longest_cont) >= 1) =>
       /\ SubSeq(mg'.f, 1, Len(mg.f)) = mg.f
       /\ BoundaryOf(Appended(mg.f, mg'.f), mg.longest_cont)]_vars

\* the square contour has been written: four points, the closing line 3 -> 0
C18_Witness ==
  /\ last.op = "write_gmsh_contour" /\ ~last.raised
  /\ mg.pts = 4
  /\ \E k \in 1..Len(mg.f) : mg.f[k].kind = "Line" /\ mg.f[k].nums = <<3, 0>>
  /\ \E k \in 1..Len(mg.f) : mg.f[k].kind = "Plane Surface" /\ mg.f[k].id = mg.surf_num


\* ---------------------------------------------------------------- C19
\* the pairs <<i, j>> of segments of lc (segment i joins vertex i to vertex
\* i+1, counted from 0) that are not adjacent, lie within dist of each other
\* and cross
CrossingPairs(lc, dist) ==
  { q \in (0..(Len(lc) - 2)) \X (0..(Len(lc) - 2)) :
      /\ q[2] >= q[1] + 2
      /\ q[2] < q[1] + dist
      /\ intersect(lc[q[1] + 1], lc[q[1] + 2], lc[q[2] + 1], lc[q[2] + 2]) }

\* a call of eliminate_intersections(d) that returned, on a polyline with
\* exactly one crossing pair
OneCrossingResolved(d) ==
  /\ MeshCallOf("eliminate_intersections") /\ ~last'.raised
  /\ last'.args = <<d>>
  /\ Cardinality(CrossingPairs(mg.longest_cont, d)) = 1

\* C19 (as stated): on a polyline with exactly one crossing pair within the
\* window, eliminate_intersections returns fewer vertices and a polyline
\* without a crossing pair within the window
C19_OneCrossingRemoved ==
  [][\A d \in Dists : OneCrossingResolved(d) =>
       /\ Len(mg'.longest_cont) < Len(mg.longest_cont)
       /\ CrossingPairs(mg'.longest_cont, d) = {}]_vars

\* C19 (amended): on such a polyline, with segments i < j the crossing pair,
\* exactly the end vertex of segment i and the start vertex of segment j are
\* removed; the other vertices stay, in order
C19_OneCrossingTwoRemoved ==
  [][\A d \in Dists : OneCrossingResolved(d) =>
       \A q \in CrossingPairs(mg.longest_cont, d) :
         /\ Len(mg'.longest_cont) = Len(mg.longest_cont) - 2
         /\ \A k \in 1..(Len(mg.longest_cont) - 2) :
              mg'.longest_cont[k] =
                mg.longest_cont[IF k <= q[1] + 1 THEN k
                                ELSE IF k <= q[2] - 1 THEN k + 1 ELSE k + 2]]_vars

\* the polyline (0,0), (1,1), (0,1), (1,2), (0,2), (2,0) after the call: two
\* vertices removed, and segments 0 and 2 of the result cross
C19_Witness ==
  /\ last.op = "eliminate_intersections" /\ ~last.raised
  /\ mg.longest_cont = << P(0, 0), P(1, 1), P(0, 1), P(2, 0) >>
  /\ <<0, 2>> \in CrossingPairs(mg.longest_cont, 10)

\* ---------------------------------------------------------------- C20
\* the vertices of a component without the repeat of the first at the end
DistinctVertices(c) == IF Len(c) > 1 /\ c[Len(c)] = c[1] THEN DropLast(c) ELSE c

\* C20: create_contour keeps a component with the most vertices and, of its
\* distinct vertices, every skip_pts-th starting from the first: only the
\* closing repeat of the first vertex is dropped
C20_StrideOverDistinct ==
  [][\A c \in ContourCalls :
       (MeshCallOf("create_contour") /\ ~last'.raised /\ last'.args = c) =>
         \E k \in 1..Len(c[1]) :
           /\ \A m \in 1..Len(c[1]) : Len(c[1][m]) <= Len(c[1][k])
           /\ mg'.longest_cont = EveryNth(DistinctVertices(c[1][k]), c[2])]_vars

CenteredWindow(idy, idx, r, ny, nx) ==
  { <<i, j>> : i \in Max2(1, idy - r)..Min2(ny, idy + r),
               j \in Max2(1, idx - r)..Min2(nx, idx + r) }

\* C22: the window integrate_field inspects for a covered vertex is the block
\* centred on the nearest cell, so the vertex gets the raw cell value exactly
\* when some cell within r of the nearest cell, on any side, is not above val
C22_WindowCentered ==
  (last.op = "integrate_field" /\ ~last.raised) =>
    LET o   == last.args[2]
        r   == last.args[4]
        val == last.args[5]
        d   == Deref(o, last.args[1])
    IN \A v \in 1..Len(MeshVertices) :
         LET idx == argmin_abs(di[o].x, MeshVertices[v][1])
             idy == argmin_abs(di[o].y, MeshVertices[v][2])
         IN Gt(d[idy][idx], val) =>
              (last.ret.values[v] = Raw(d[idy][idx], v)
                 <=> \E c \in CenteredWindow(idy, idx, r, di[o].ny, di[o].nx) :
                       ~Gt(d[c[1]][c[2]], val))

\* ---------------------------------------------------------------- C23
\* the constructor of g returns in this step, after trimming
TrimmedAtEnd(g) == pc[g] = "loading" /\ pc'[g] = "done" /\ di[g].rem_nans

\* the row mask, told in the row order of a flipped array
MaskOfFlipped(mask) == [i \in 1..Len(mask) |-> mask[Len(mask) + 1 - i]]

\* C23: when a group loaded with flip is trimmed, each stored (flipped) array
\* loses exactly its own rows that were identified as entirely NaN (row i of
\* the stored array is row ny+1-i of the array identify_nans saw) and the
\* columns identified as entirely NaN
C23_FlippedRowsTrimmed ==
  [][\A g \in Groups : (TrimmedAtEnd(g) /\ args[g].flip) =>
       \A k \in DOMAIN di[g].data :
         ViewOf(di'[g].data[k], files') =
           BoolIndex2(Deref(g, k), MaskOfFlipped(di[g].good_y), di[g].good_x)]_vars

\* ---------------------------------------------------------------- C24
\* some row or some column of the array holds nothing but NaN
HasAllNanLine(a) ==
  \/ \E i \in 1..Len(a) : \A j \in 1..Len(a[i]) : isnan(a[i][j])
  \/ \E j \in 1..Len(a[1]) : \A i \in 1..Len(a) : isnan(a[i][j])

\* C24: once a group of several fields is constructed, none of its field
\* arrays has a row or a column that is entirely NaN
C24_NoAllNanLine ==
  \A g \in Groups : (pc[g] = "done" /\ Len(args[g].files) >= 2) =>
    \A k \in DOMAIN di[g].data : ~HasAllNanLine(Deref(g, k))

\* ---------------------------------------------------------------- C25
\* C25: at every mesh vertex integrate_field tests and falls back to the
\* cell the secondary group's nearest interpolant samples there: a vertex is
\* covered exactly if that sample is above val, and a raw value given to a
\* vertex is that sample
C25_RawLookupIsNearest ==
  (last.op = "integrate_field" /\ ~last.raised) =>
    LET g    == last.g
        o    == last.args[2]
        val  == last.args[5]
        near == nearestExpression(o, last.args[1], di[o])
        main == Function("CG", "project",
                         newExpression(g, last.args[3], di[g], Deref(g, last.args[3]), 3, 3))
    IN \A v \in 1..Len(MeshVertices) :
         LET sample == Eval(near, MeshVertices[v][1], MeshVertices[v][2])
             res    == last.ret.values[v]
         IN /\ Gt(sample, val) <=> res # main.values[v]
            /\ res.kind = "raw" => res.val = sample

\* ---------------------------------------------------------------- C26
\* the k-th smallest member of a set of indices
Nth(S, k) == CHOOSE i \in S : Cardinality({j \in S : j < i}) = k - 1

\* r is made of vertices of lc, in the order they have in lc
IsSubsequence(r, lc) ==
  \E S \in SUBSET (1..Len(lc)) :
    /\ Cardinality(S) = Len(r)
    /\ \A k \in 1..Len(r) : r[k] = lc[Nth(S, k)]

\* the vertices that get flag 0: for each crossing pair of segments i < j,
\* the end vertex of segment i and the start vertex of segment j (from 1)
FlaggedByPairs(lc, dist) ==
  {q[1] + 2 : q \in CrossingPairs(lc, dist)} \cup {q[2] + 1 : q \in CrossingPairs(lc, dist)}

\* C26: eliminate_intersections returns an order-preserving subsequence of
\* the polyline it was given, as long as the number of unflagged vertices,
\* and it begins with the first vertex of the input
C26_OrderedSubsequence ==
  [][\A d \in Dists :
       (MeshCallOf("eliminate_intersections") /\ ~last'.raised /\ last'.args = <<d>>) =>
         /\ IsSubsequence(mg'.longest_cont, mg.longest_cont)
         /\ Len(mg'.longest_cont) =
              Len(mg.longest_cont) - Cardinality(FlaggedByPairs(mg.longest_cont, d))
         /\ Len(mg.longest_cont) >= 1 => mg'.longest_cont[1] = mg.longest_cont[1]]_vars

\* a polyline that lost vertices to the call, its first vertex still first
C26_Witness ==
  /\ last.op = "eliminate_intersections" /\ ~last.raised
  /\ Len(mg.longest_cont) \in 1..5
  /\ mg.longest_cont[1] = P(0, 0)
  /\ \E p \in Polylines : IsSubsequence(mg.longest_cont, p)
====
